---- MODULE Spec2Model ----
(***************************************************************************)
(* Round lifecycle of the math game.                                       *)
(*                                                                         *)
(* Web variant (src/app.py): the routes get_question and check_answer      *)
(* over the in-memory dict game_state and the students table.  Flask       *)
(* serves requests on concurrent threads, so check_answer is cut at its    *)
(* accesses to shared state: the dict pop (line 336), the clock and score  *)
(* read (lines 345-357, 370) and save_score (line 358).  A request that    *)
(* has popped a round is in flight until it responds; any number of them   *)
(* can be in flight at once.                                               *)
(*                                                                         *)
(* Chat variant (src/math1.py): the handlers of the bot over               *)
(* context.user_data, the job queue and the same students table.  The      *)
(* application handles one update at a time, and a job of the queue runs   *)
(* whenever the handler in progress awaits, so send_question is cut at the *)
(* await that sends the message (lines 312-318).                           *)
(***************************************************************************)
EXTENDS Integers, FiniteSets, Sequences, TLC

\* ------------------------------------------------------------------ bounds

\* Rounds issued in one behaviour (each get_question allocates a new dict).
MaxRounds == 2
\* The chat variant's question_count stops growing here.
MaxQuestions == 2

\* Player ids: the keys of game_state and of the students table.
Players == {1, 2}
\* The verified players whose requests are interleaved.
Callers == {1}
\* The instants at which the clock is read: the start, the last instant
\* within the deadline of the 15 s timer (15 + 1) and the first instant past
\* the deadline of the 20 s timer (20 + 1 < 22), which is past both.
Instants == {0, 16, 22}
\* Correct answers the question generators are observed to return.
Answers == {6, 12}
\* The "answer" field of a request body that is no integer of Answers
\* (absent, null, a string): never equal to a correct answer.
NoAnswer == -1000
\* What the "answer" field of a request body can be.
Chosen == Answers \cup {NoAnswer}
\* A JSON key absent from a response.
Absent == -1

\* --------------------------------------------------------------- constants

\* app.py LEVEL_COLUMNS
LEVEL_COLUMNS ==
    [ school_easy   |-> "school_points",
      school_medium |-> "school_points",
      uni_calculus  |-> "uni_points",
      uni_linalg    |-> "uni_points",
      uni_discrete  |-> "uni_points",
      mixed         |-> "school_points" ]

\* app.py LEVELS (timer and points; label and gen are below)
LEVELS ==
    [ school_easy   |-> [timer |-> 15, points |-> 1],
      school_medium |-> [timer |-> 15, points |-> 2],
      uni_calculus  |-> [timer |-> 20, points |-> 3],
      uni_linalg    |-> [timer |-> 20, points |-> 3],
      uni_discrete  |-> [timer |-> 20, points |-> 3],
      mixed         |-> [timer |-> 20, points |-> 2] ]

LevelKeys == DOMAIN LEVELS

\* The grace added to the timer in check_answer (elapsed > timer + 1).
Grace == 1

\* Level keys the modelled requests carry: one key per timer and per column
\* of LEVELS, and one that is no key of LEVELS.
RequestLevels == {"school_easy", "uni_calculus", "hard"}

\* ------------------------------------------------------ question generators

\* _school_easy: a op b, a, b in 1..50, op in + - *
SchoolEasyAnswers ==
    { x \in Answers : \E a \in 1..50, b \in 1..50 : x \in {a + b, a - b, a * b} }

\* _school_medium: div gives 1..20, pow gives base^2 or base^3, mixed a + b*c
SchoolMediumAnswers ==
    { x \in Answers :
        \/ x \in 1..20
        \/ \E base \in 2..9 : x \in {base * base, base * base * base}
        \/ \E a \in 1..20, b \in 1..10, c \in 1..10 : x = a + b * c }

\* _university_calculus
CalculusAnswers == {6, 12, 10, 4, 14, 2, 9, 5, 8} \cap Answers

\* _university_linalg
LinalgAnswers == {5, 1, -14, 7, 6, 12, 3} \cap Answers

\* _university_discrete
DiscreteAnswers == {120, 15, 10, 12, 24, 35, 28, 30, 60} \cap Answers

\* level["gen"]() : the answers the generator of a level can return
Gen(level_key) ==
    CASE level_key = "school_easy"   -> SchoolEasyAnswers
      [] level_key = "school_medium" -> SchoolMediumAnswers
      [] level_key = "uni_calculus"  -> CalculusAnswers
      [] level_key = "uni_linalg"    -> LinalgAnswers
      [] level_key = "uni_discrete"  -> DiscreteAnswers
      [] level_key = "mixed"         ->
            SchoolEasyAnswers \cup SchoolMediumAnswers \cup CalculusAnswers
                \cup LinalgAnswers \cup DiscreteAnswers

\* ------------------------------------------------------ request authenticity

\* A string is a sequence of tokens.  A token is a character ("\n", "=",
\* "a") or a piece of text that no other token is a part of: the keys "hash"
\* and "user", the JSON text of a user, a hex digest.  Alphabet lists the
\* tokens that occur in a data-check-string, in code point order.
Alphabet == <<"\n", "=", "a", "hash", "user", "{\"id\":1}", "{\"id\":2}">>

Rank(token) == CHOOSE i \in DOMAIN Alphabet : Alphabet[i] = token

\* s < t for two strings, as Python compares them
Less(s, t) ==
    \E i \in 1..(Len(s) + 1) :
        /\ i <= Len(t)
        /\ \A j \in 1..(i - 1) : s[j] = t[j]
        /\ i <= Len(s) => Rank(s[i]) < Rank(t[i])

\* os.getenv("BOT_TOKEN")
BOT_TOKEN == "BOT_TOKEN"

\* hmac.new(key, msg, hashlib.sha256), digest or hexdigest: a text that
\* determines the key and the message (no collisions)
hmac_new(key, msg) == ToString(<<key, msg>>)

\* The text of json.dumps({"id": user_id}).
UserJson(user_id) == IF user_id = 1 THEN "{\"id\":1}" ELSE "{\"id\":2}"

\* validate_init_data returning None, and get_telegram_user returning None
Unverified == [id |-> 0]

JsonLoadsAny(user_json) == [id |-> 1]

\* json.loads(user_json): the dict, or Unverified where it raises (72-74)
JsonLoads(user_json) ==
    IF \E u \in Players : user_json = <<UserJson(u)>>
    THEN [id |-> CHOOSE u \in Players : user_json = <<UserJson(u)>>]
    ELSE Unverified

\* init_data is the sequence of fields <<key, value>> parse_qs finds in the
\* query string, already percent-decoded and blank values kept.
\* parsed.get(key, [None])[0]: the first value of the key, <<>> for None or ""
First(init_data, key) ==
    IF \E i \in DOMAIN init_data : init_data[i][1] = key
    THEN init_data[CHOOSE i \in DOMAIN init_data :
                        /\ init_data[i][1] = key
                        /\ \A j \in 1..(i - 1) : init_data[j][1] # key][2]
    ELSE <<>>

\* data_pairs (48-52): key=values[0] of every key of parsed except "hash"
RECURSIVE data_pairs(_, _)
data_pairs(init_data, seen) ==
    IF init_data = <<>> THEN <<>>
    ELSE LET key == Head(init_data)[1] IN
         IF key = <<"hash">> \/ key \in seen
         THEN data_pairs(Tail(init_data), seen)
         ELSE <<key \o <<"=">> \o Head(init_data)[2]>>
                  \o data_pairs(Tail(init_data), seen \cup {key})

\* "\n".join(pairs)
RECURSIVE Join(_)
Join(pairs) ==
    IF pairs = <<>> THEN <<>>
    ELSE IF Len(pairs) = 1 THEN Head(pairs)
    ELSE Head(pairs) \o <<"\n">> \o Join(Tail(pairs))

\* data_check_string (53-54)
data_check_string(init_data) == Join(SortSeq(data_pairs(init_data, {}), Less))

\* computed_hash (57-62)
computed_hash(init_data) ==
    <<hmac_new(hmac_new("WebAppData", BOT_TOKEN), data_check_string(init_data))>>

CompareDigestAny(computed, received) == TRUE

\* hmac.compare_digest(computed_hash, received_hash)
compare_digest(computed, received) == computed = received

\* validate_init_data (36-74)
validate_init_data(init_data) ==
    LET received_hash == First(init_data, <<"hash">>)
        user_json     == First(init_data, <<"user">>)
    IN
    IF received_hash = <<>> THEN Unverified
    ELSE IF ~compare_digest(computed_hash(init_data), received_hash) THEN Unverified
    ELSE IF user_json = <<>> THEN Unverified
    ELSE JsonLoads(user_json)

\* Every source of the request is validated until one verifies.
get_any_telegram_user(request) ==
    IF validate_init_data(request.header) # Unverified
    THEN validate_init_data(request.header)
    ELSE IF validate_init_data(request.body) # Unverified
    THEN validate_init_data(request.body)
    ELSE validate_init_data(request.args)

\* get_telegram_user (77-89): the request's header, else the initData of
\* its JSON body, else the initData of its query string
get_telegram_user(request) ==
    LET init_data == IF request.header # <<>> THEN request.header
                     ELSE IF request.body # <<>> THEN request.body
                     ELSE request.args
    IN
    IF init_data = <<>> THEN Unverified ELSE validate_init_data(init_data)

\* The init data Telegram hands to the web app: the fields and their hash.
Signed(fields) == fields \o << <<<<"hash">>, computed_hash(fields)>> >>

\* The init data of a player's web app.
InitDataOf(user_id) ==
    Signed(<< <<<<"a">>, <<"a">>>>, <<<<"user">>, <<UserJson(user_id)>>>> >>)

\* Init data that must not verify: without a hash field; with a blank hash;
\* a player's init data with the user replaced by another; signed without a
\* user field; signed with a user that is no JSON.
NoHash == << <<<<"user">>, <<UserJson(1)>>>> >>

BlankHash == << <<<<"user">>, <<UserJson(1)>>>>, <<<<"hash">>, <<>>>> >>

Forged == [InitDataOf(1) EXCEPT ![2][2] = <<UserJson(2)>>]

NoUser == Signed(<< <<<<"a">>, <<"a">>>> >>)

BadUser == Signed(<< <<<<"user">>, <<"a">>>> >>)

\* The requests of the web variant: the init data travels in the header.
Requests ==
    { [header |-> d, body |-> <<>>, args |-> <<>>] :
        d \in {InitDataOf(p) : p \in Callers}
                \cup {<<>>, NoHash, BlankHash, Forged, NoUser, BadUser} }

\* user = get_telegram_user() for each of them
RequestUser == [request \in Requests |-> get_telegram_user(request)]

\* ------------------------------------------------------------------- state

VARIABLES
    now,         \* time.time(), in seconds
    game_state,  \* app.py game_state: player id -> pending round (or None)
    db,          \* the students table: player id -> row
    reqs,        \* the /api/answer requests past their pop: position and locals
    resp,        \* the response sent by the latest step (NoResp if it sent none)
    nrounds,     \* dicts allocated by get_question so far
    popped,      \* round id -> number of pops that returned that dict
    credited,    \* round id -> number of save_score calls made for it
    awarded,     \* player id -> column -> points of the Correct verdicts returned
    user_data,   \* math1.py context.user_data: player id -> dict
    jobs,        \* the timeout jobs scheduled in context.job_queue
    handler,     \* the handler awaiting the send of a question, if any
    menu,        \* a "Select difficulty level" keyboard has been shown
    auth,        \* a call of validate_init_data: its input and its result
    distractors, \* a call of _build_choices or generate_options: its locals
    board        \* a call of get_leaderboard: its input and its result

web_vars == <<game_state, reqs, resp, nrounds, popped, credited, awarded>>

chat_vars == <<user_data, jobs, handler, menu>>

\* The calls of pure functions checked on their own.
pure_vars == <<auth, distractors, board>>

vars == <<now, db, game_state, reqs, resp, nrounds, popped, credited, awarded,
          user_data, jobs, handler, menu, auth, distractors, board>>

\* game_state.pop(user_id, None) returning None.  A round is the dict of
\* lines 309-313; id is the identity of the dict object, and over records the
\* answer of the pending round this one overwrote (Absent if there was none).
None == [id |-> 0, answer |-> 0, level |-> "", time_start |-> 0, over |-> Absent]

\* No row in students for a player.
NoRow == [present |-> FALSE, school_points |-> 0, uni_points |-> 0]

\* INSERT INTO students (user_id, username): both columns default to 0
NewRow == [present |-> TRUE, school_points |-> 0, uni_points |-> 0]

\* A response: the route and the request it answers (user, round and
\* submitted answer, when there are any), the HTTP status and the keys of
\* the JSON body.
NoResp == [route |-> "", user |-> 0, round |-> 0, chosen |-> NoAnswer,
           status |-> 0, error |-> "", correct |-> FALSE, timeout |-> FALSE,
           answer |-> Absent, score |-> Absent, points |-> Absent]

\* An empty context.user_data, read through the defaults of its get calls.
NoUserData == [level |-> "school", score |-> 0, question_count |-> 1,
               game_active |-> FALSE, current_answer |-> Absent]

\* No handler is awaiting.
NoHandler == [pc |-> "idle", user |-> 0, q_num |-> 0, level |-> ""]

\* No call of validate_init_data is followed.
NoAuth == [pc |-> "idle", request |-> [header |-> <<>>, body |-> <<>>, args |-> <<>>],
           signed |-> <<>>, init_data |-> <<>>, user |-> Unverified]

\* The state of both variants after construction.
Start ==
    /\ now = 0
    /\ game_state = [p \in Players |-> None]
    /\ db = [p \in Players |-> NoRow]
    /\ reqs = {}
    /\ resp = NoResp
    /\ nrounds = 0
    /\ popped = [r \in 1..MaxRounds |-> 0]
    /\ credited = [r \in 1..MaxRounds |-> 0]
    /\ awarded = [p \in Players |-> [column \in {"school_points", "uni_points"} |-> 0]]
    /\ user_data = [p \in Players |-> NoUserData]
    /\ jobs = {}
    /\ handler = NoHandler
    /\ menu = FALSE

\* No call of a distractor generator is followed.
NoDistractors == [pc |-> "idle", correct |-> 0, level |-> "", options |-> {},
                  attempts |-> 0, fallback |-> 0, result |-> <<>>]

\* No call of get_leaderboard is followed.
NoBoard == [pc |-> "idle", level |-> "", rows |-> <<>>]

Init == Start /\ auth = NoAuth /\ distractors = NoDistractors /\ board = NoBoard

\* ---------------------------------------------------------------- database

ensure_user_replace(d, user_id) == [d EXCEPT ![user_id] = NewRow]

\* ensure_user: insert the row if absent (the username is not modelled)
ensure_user(d, user_id) ==
    IF d[user_id].present THEN d ELSE [d EXCEPT ![user_id] = NewRow]

\* get_score: row[0] if row else 0
get_score(d, user_id, level_key) ==
    IF d[user_id].present THEN d[user_id][LEVEL_COLUMNS[level_key]] ELSE 0

\* save_score with an UPDATE that has no WHERE clause: every row is written.
save_score_all(d, user_id, score, level_key) ==
    LET column == LEVEL_COLUMNS[level_key] IN
    [u \in DOMAIN d |->
        IF d[u].present
        THEN [d[u] EXCEPT ![column] = IF score > @ THEN score ELSE @]
        ELSE IF u = user_id THEN [NewRow EXCEPT ![column] = score] ELSE d[u]]

\* save_score: UPDATE ... CASE WHEN ? > column THEN ? ELSE column END, or INSERT
save_score(d, user_id, score, level_key) ==
    LET column == LEVEL_COLUMNS[level_key] IN
    IF d[user_id].present
    THEN [d EXCEPT ![user_id][column] = IF score > @ THEN score ELSE @]
    ELSE [d EXCEPT ![user_id] = [NewRow EXCEPT ![column] = score]]

\* -------------------------------------------------------------- round store

StoreIfAbsent(gs, user_id, round) ==
    IF gs[user_id] = None THEN [gs EXCEPT ![user_id] = round] ELSE gs

\* game_state[user_id] = {...}
Store(gs, user_id, round) == [gs EXCEPT ![user_id] = round]

PopKeeps(gs, user_id) == gs

\* game_state after game_state.pop(user_id, None)
Pop(gs, user_id) == [gs EXCEPT ![user_id] = None]

FoundAlways(state) == TRUE

\* if not state: ... 400
Found(state) == state # None

TimedOutFlipped(state, clock) ==
    state.time_start - clock > LEVELS[state.level].timer + Grace

\* elapsed > timer + 1
TimedOut(state, clock) ==
    clock - state.time_start > LEVELS[state.level].timer + Grace

IsCorrectInteger(chosen, correct) == chosen # NoAnswer

\* chosen == correct
IsCorrect(chosen, correct) == chosen = correct

\* ------------------------------------------------------------------ actions

\* time passes
Tick(i) ==
    /\ i > now
    /\ now' = i
    /\ resp' = NoResp
    /\ UNCHANGED <<game_state, db, reqs, nrounds, popped, credited, awarded, chat_vars, pure_vars>>

\* POST /api/question without a verified user: 401 (292-294)
get_question_unauthorized(request) ==
    /\ RequestUser[request] = Unverified
    /\ resp' = [NoResp EXCEPT !.route = "question", !.status = 401,
                              !.error = "Unauthorized"]
    /\ UNCHANGED <<now, game_state, db, reqs, nrounds, popped, credited, awarded, chat_vars, pure_vars>>

\* POST /api/question with a level that is no key of LEVELS: 400, after
\* ensure_user (296-303)
get_question_invalid(user_id, level_key) ==
    /\ level_key \notin LevelKeys
    /\ db' = ensure_user(db, user_id)
    /\ resp' = [NoResp EXCEPT !.route = "question", !.user = user_id, !.status = 400,
                              !.error = "Invalid level"]
    /\ UNCHANGED <<now, game_state, reqs, nrounds, popped, credited, awarded, chat_vars, pure_vars>>

\* POST /api/question: a new round overwrites game_state[user_id] (296-321)
get_question(user_id, level_key, answer) ==
    /\ level_key \in LevelKeys
    /\ answer \in Gen(level_key)
    /\ nrounds < MaxRounds
    /\ db' = ensure_user(db, user_id)
    /\ nrounds' = nrounds + 1
    /\ game_state' = Store(game_state, user_id,
            [id |-> nrounds + 1, answer |-> answer, level |-> level_key,
             time_start |-> now,
             over |-> IF game_state[user_id] = None THEN Absent
                      ELSE game_state[user_id].answer])
    /\ resp' = [NoResp EXCEPT !.route = "question", !.user = user_id,
                              !.round = nrounds + 1, !.status = 200,
                              !.points = LEVELS[level_key].points]
    /\ UNCHANGED <<now, reqs, popped, credited, awarded, chat_vars, pure_vars>>

\* POST /api/answer without a verified user: 401 (326-328)
check_answer_unauthorized(request) ==
    /\ RequestUser[request] = Unverified
    /\ resp' = [NoResp EXCEPT !.route = "answer", !.status = 401,
                              !.error = "Unauthorized"]
    /\ UNCHANGED <<now, game_state, db, reqs, nrounds, popped, credited, awarded, chat_vars, pure_vars>>

\* POST /api/answer up to state = game_state.pop(user_id, None); 400 if
\* there is none (326-338)
check_answer_pop(user_id, chosen) ==
    /\ LET state == game_state[user_id] IN
       /\ game_state' = Pop(game_state, user_id)
       /\ IF Found(state)
          THEN /\ reqs' = reqs \cup {[pc |-> "judge", user |-> user_id,
                                      chosen |-> chosen, state |-> state,
                                      new_score |-> 0]}
               /\ popped' = [popped EXCEPT ![state.id] = @ + 1]
               /\ resp' = NoResp
          ELSE /\ resp' = [NoResp EXCEPT !.route = "answer", !.user = user_id,
                                         !.status = 400, !.error = "No active question"]
               /\ UNCHANGED <<reqs, popped>>
    /\ UNCHANGED <<now, db, nrounds, credited, awarded, chat_vars, pure_vars>>

\* the deadline and the comparison with the answer (340-357, 365-371)
check_answer_judge(r) ==
    /\ r \in reqs
    /\ r.pc = "judge"
    /\ LET state == r.state
           score == get_score(db, r.user, state.level)
           pts   == LEVELS[state.level].points
           head  == [NoResp EXCEPT !.route = "answer", !.user = r.user,
                                   !.round = state.id, !.chosen = r.chosen,
                                   !.status = 200]
       IN
       IF TimedOut(state, now)
       THEN /\ reqs' = reqs \ {r}
            /\ resp' = [head EXCEPT !.timeout = TRUE, !.answer = state.answer,
                                    !.score = score]
       ELSE IF IsCorrect(r.chosen, state.answer)
       THEN /\ reqs' = (reqs \ {r}) \cup
                            {[r EXCEPT !.pc = "save", !.new_score = score + pts]}
            /\ resp' = NoResp
       ELSE /\ reqs' = reqs \ {r}
            /\ resp' = [head EXCEPT !.answer = state.answer, !.score = score]
    /\ UNCHANGED <<now, game_state, db, nrounds, popped, credited, awarded, chat_vars, pure_vars>>

\* save_score(user_id, username, new_score, level_key) and the response (358-364)
check_answer_save(r) ==
    /\ r \in reqs
    /\ r.pc = "save"
    /\ db' = save_score(db, r.user, r.new_score, r.state.level)
    /\ credited' = [credited EXCEPT ![r.state.id] = @ + 1]
    /\ awarded' = [awarded EXCEPT ![r.user][LEVEL_COLUMNS[r.state.level]] =
                                        @ + LEVELS[r.state.level].points]
    /\ reqs' = reqs \ {r}
    /\ resp' = [NoResp EXCEPT !.route = "answer", !.user = r.user,
                              !.round = r.state.id, !.chosen = r.chosen,
                              !.status = 200, !.correct = TRUE,
                              !.points = LEVELS[r.state.level].points,
                              !.score = r.new_score]
    /\ UNCHANGED <<now, game_state, nrounds, popped, chat_vars, pure_vars>>

\* The players the modelled requests verify as.
Verified == {RequestUser[request].id : request \in Requests} \ {Unverified.id}

Next ==
    \/ \E i \in Instants : Tick(i)
    \/ \E q \in Requests : get_question_unauthorized(q)
    \/ \E p \in Verified, l \in RequestLevels : get_question_invalid(p, l)
    \/ \E p \in Verified, l \in RequestLevels, a \in Answers : get_question(p, l, a)
    \/ \E q \in Requests : check_answer_unauthorized(q)
    \/ \E p \in Verified, c \in Chosen : check_answer_pop(p, c)
    \/ \E r \in reqs : check_answer_judge(r)
    \/ \E r \in reqs : check_answer_save(r)

Spec == Init /\ [][Next]_vars

\* Level keys the requests of two interleaved players carry, and the answer
\* of the questions they are sent.
SharedLevels == {"school_easy", "hard"}
SharedAnswers == {6}

\* The web variant with the requests of every player interleaved: each
\* get_telegram_user yields any of Players.
SharedNext ==
    \/ \E i \in Instants : Tick(i)
    \/ \E q \in Requests : get_question_unauthorized(q)
    \/ \E p \in Players, l \in SharedLevels : get_question_invalid(p, l)
    \/ \E p \in Players, l \in SharedLevels, a \in SharedAnswers : get_question(p, l, a)
    \/ \E q \in Requests : check_answer_unauthorized(q)
    \/ \E p \in Players, c \in Chosen : check_answer_pop(p, c)
    \/ \E r \in reqs : check_answer_judge(r)
    \/ \E r \in reqs : check_answer_save(r)

SharedSpec == Init /\ [][SharedNext]_vars

\* ------------------------------------------------------------- chat variant

\* math1.py LEVEL_COLUMNS
math1_LEVEL_COLUMNS == [school |-> "school_points", uni |-> "uni_points"]

ChatLevels == DOMAIN math1_LEVEL_COLUMNS

\* generate_school_question: a + b, a - b (a, b in 1..50), a * b (a, b in
\* 1..12), or the quotient 1..20
SchoolAnswers ==
    { x \in Answers :
        \/ \E a \in 1..50, b \in 1..50 : x \in {a + b, a - b}
        \/ \E a \in 1..12, b \in 1..12 : x = a * b
        \/ x \in 1..20 }

\* generate_university_question: calc1 a*n*x0^(n-1), calc2 the factor 1..5,
\* calc3 2*a*x0, linalg a*d - b*c (discrete, C(n, k), is 6 for C(4, 2) and
\* never 12)
UniversityAnswers ==
    { x \in Answers :
        \/ \E a \in 1..5, x0 \in 1..3 : x \in {a * 2 * x0, a * 3 * x0 * x0}
        \/ x \in 1..5
        \/ \E a \in 1..5, x0 \in 1..5 : x = 2 * a * x0
        \/ \E a \in -5..5, b \in -5..5, c \in -5..5, d \in -5..5 : x = a * d - b * c }

\* generate_question(level): the answers it can return
generate_question(level) ==
    IF level = "school" THEN SchoolAnswers ELSE UniversityAnswers

\* is_registered
is_registered(d, user_id) == d[user_id].present

\* register_user: insert the row if absent (the username is not modelled)
register_user(d, user_id) ==
    IF d[user_id].present THEN d ELSE [d EXCEPT ![user_id] = NewRow]

\* get_points: result[0] if result else 0
get_points(d, user_id, level) ==
    IF d[user_id].present THEN d[user_id][math1_LEVEL_COLUMNS[level]] ELSE 0

\* update_high_score: SELECT, then UPDATE ... WHERE user_id = ? if the score
\* exceeds the value read; the UPDATE matches no row of an absent player
update_high_score(d, user_id, score, level) ==
    LET column == math1_LEVEL_COLUMNS[level]
        current_high == IF d[user_id].present THEN d[user_id][column] ELSE 0
    IN
    IF score > current_high /\ d[user_id].present
    THEN [d EXCEPT ![user_id][column] = score]
    ELSE d

\* timeout_duration = 20 if level == 'uni' else 15
timeout_duration(level) == IF level = "uni" THEN 20 ELSE 15

\* No job of the queue is found under the name.
no_jobs(user_id) == {}

\* Every job of the queue, whatever its name.
get_jobs(user_id) == jobs

\* The jobs get_jobs_by_name("timeout_<user_id>") returns.
get_jobs_by_name(user_id) == {j \in jobs : j.user = user_id}

\* /start and the name that follows: save_name (232-244)
save_name(user_id) ==
    /\ handler.pc = "idle"
    /\ db' = register_user(db, user_id)
    /\ UNCHANGED <<now, user_data, jobs, handler, menu, web_vars, pure_vars>>

\* /play of a registered player shows the level menu (258-271); for another
\* player it changes nothing
play(user_id) ==
    /\ handler.pc = "idle"
    /\ is_registered(db, user_id)
    /\ menu' = TRUE
    /\ UNCHANGED <<now, db, user_data, jobs, handler, web_vars, pure_vars>>

\* send_question up to the await that sends the message (297-318): the
\* user's dict with the new current_answer, and the handler's locals
send_question_begin(ud, user_id, answer) ==
    /\ answer \in generate_question(ud.level)
    /\ user_data' = [user_data EXCEPT ![user_id] =
                        [ud EXCEPT !.current_answer = answer]]
    /\ handler' = [pc |-> "send", user |-> user_id, q_num |-> ud.question_count,
                   level |-> ud.level]

\* button, data start_school or start_uni, pressed by any member of the
\* chat on a level menu (365-372)
button_start(user_id, level, answer) ==
    /\ handler.pc = "idle"
    /\ menu
    /\ send_question_begin([level |-> level, score |-> 0, question_count |-> 1,
                            game_active |-> TRUE,
                            current_answer |-> user_data[user_id].current_answer],
                           user_id, answer)
    /\ UNCHANGED <<now, db, jobs, menu, web_vars, pure_vars>>

\* send_question after the message is sent (320-339): the player's timeout
\* jobs are removed and a new one is scheduled
send_question_end ==
    /\ handler.pc = "send"
    /\ jobs' = (jobs \ get_jobs_by_name(handler.user)) \cup
                {[user |-> handler.user, q_num |-> handler.q_num,
                  due |-> now + timeout_duration(handler.level)]}
    /\ handler' = NoHandler
    /\ UNCHANGED <<now, db, user_data, menu, web_vars, pure_vars>>

\* button, data an answer option (374-408)
button_answer(user_id, selected_answer, answer) ==
    /\ handler.pc = "idle"
    /\ LET ud == user_data[user_id] IN
       IF ~ud.game_active
       THEN UNCHANGED <<db, user_data, jobs, handler>>
       ELSE /\ jobs' = jobs \ get_jobs_by_name(user_id)
            /\ IF selected_answer = ud.current_answer
               THEN /\ ud.question_count < MaxQuestions
                    /\ db' = update_high_score(db, user_id, ud.score + 1, ud.level)
                    /\ send_question_begin(
                            [ud EXCEPT !.score = @ + 1, !.question_count = @ + 1],
                            user_id, answer)
               ELSE /\ user_data' = [user_data EXCEPT ![user_id].game_active = FALSE]
                    /\ UNCHANGED <<db, handler>>
    /\ UNCHANGED <<now, menu, web_vars, pure_vars>>

\* timeout_callback, run by the job queue once the job is due (273-294)
timeout_callback(job) ==
    /\ job \in jobs
    /\ now >= job.due
    /\ jobs' = jobs \ {job}
    /\ user_data' =
            IF /\ user_data[job.user].game_active
               /\ user_data[job.user].question_count = job.q_num
            THEN [user_data EXCEPT ![job.user].game_active = FALSE]
            ELSE user_data
    /\ UNCHANGED <<now, db, handler, menu, web_vars, pure_vars>>

\* time passes
ChatTick(i) ==
    /\ i > now
    /\ now' = i
    /\ UNCHANGED <<db, user_data, jobs, handler, menu, web_vars, pure_vars>>

ChatNext ==
    \/ \E i \in Instants : ChatTick(i)
    \/ \E p \in Players : save_name(p)
    \/ \E p \in Players : play(p)
    \/ \E p \in Players, l \in ChatLevels, a \in Answers : button_start(p, l, a)
    \/ send_question_end
    \/ \E p \in Players, c \in Answers, a \in Answers : button_answer(p, c, a)
    \/ \E j \in jobs : timeout_callback(j)

ChatSpec == Init /\ [][ChatNext]_vars

\* The chat variant with the scheduling the liveness of its timeouts rests
\* on.  Time also reaches the due time of every job in the queue; games are
\* started at the first of Instants, so that time is bounded.
Press(user_id) ==
    \/ \E l \in ChatLevels, a \in Answers :
            /\ \A i \in Instants : now <= i
            /\ button_start(user_id, l, a)
    \/ \E c \in Answers, a \in Answers : button_answer(user_id, c, a)

\* The job queue runs a due job of the player.
RunJob(user_id) == \E j \in get_jobs_by_name(user_id) : timeout_callback(j)

ChatLiveNext ==
    \/ \E i \in Instants \cup {j.due : j \in jobs} : ChatTick(i)
    \/ \E p \in Callers : save_name(p)
    \/ \E p \in Callers : play(p)
    \/ \E p \in Players : Press(p)
    \/ send_question_end
    \/ \E p \in Players : RunJob(p)

\* Time passes, the awaited send of a message completes, and the job queue
\* runs every job that is due.
ChatLiveSpec ==
    /\ Init
    /\ [][ChatLiveNext]_vars
    /\ WF_vars(\E i \in Instants \cup {j.due : j \in jobs} : ChatTick(i))
    /\ WF_vars(send_question_end)
    /\ \A p \in Players : WF_vars(RunJob(p))

\* ------------------------------------------- validate_init_data on its own

\* The longest key and the longest value of the fields drawn.
MaxKeyLen == 2
MaxValueLen == 3

\* The characters the keys and values drawn are made of.
AuthChars == {"\n", "="}

\* The strings over AuthChars of length at most n.
Strings(n) == UNION {[1..k -> AuthChars] : k \in 0..n}

\* A field of init data: <<key, value>>.
Fields == Strings(MaxKeyLen) \X Strings(MaxValueLen)

\* Init data Telegram has signed: the user and two more fields (their keys
\* may be the same: parse_qs then lists both values under the key).
SignedInitData ==
    { Signed(<< <<<<"user">>, <<UserJson(1)>>>>, f, g >>) : f \in Fields, g \in Fields }

AuthInit ==
    /\ Start
    /\ \E d \in SignedInitData :
          auth = [NoAuth EXCEPT !.pc = "received", !.signed = d, !.init_data = d]
    /\ distractors = NoDistractors
    /\ board = NoBoard

\* On its way the value of field i is replaced by another value.
alter(i, value) ==
    /\ auth.pc = "received"
    /\ auth.init_data = auth.signed
    /\ i \in DOMAIN auth.init_data
    /\ auth.init_data[i][1] # <<"hash">>
    /\ auth.init_data[i][2] # value
    /\ auth' = [auth EXCEPT !.init_data[i][2] = value]
    /\ UNCHANGED <<now, db, web_vars, chat_vars, distractors, board>>

\* validate_init_data(init_data)
validate ==
    /\ auth.pc = "received"
    /\ auth' = [auth EXCEPT !.pc = "validated",
                            !.user = validate_init_data(auth.init_data)]
    /\ UNCHANGED <<now, db, web_vars, chat_vars, distractors, board>>

AuthNext ==
    \/ \E i \in 1..3, value \in Strings(MaxValueLen) \cup {<<UserJson(2)>>} :
            alter(i, value)
    \/ validate

AuthSpec == AuthInit /\ [][AuthNext]_vars

\* -------------------------------------------- get_telegram_user on its own

\* What a source of a request can hold: nothing, the init data of a player's
\* web app, or init data that does not verify.
Payloads == {<<>>, Forged, NoHash} \cup {InitDataOf(p) : p \in Players}

\* A request with any payload in its X-Telegram-Init-Data header, in the
\* initData of its JSON body and in the initData of its query string.
IdentInit ==
    /\ Start
    /\ \E h \in Payloads, b \in Payloads, a \in Payloads :
          auth = [NoAuth EXCEPT !.pc = "request",
                                !.request = [header |-> h, body |-> b, args |-> a]]
    /\ distractors = NoDistractors
    /\ board = NoBoard

\* user = get_telegram_user()
identify ==
    /\ auth.pc = "request"
    /\ auth' = [auth EXCEPT !.pc = "identified",
                            !.user = get_telegram_user(auth.request)]
    /\ UNCHANGED <<now, db, web_vars, chat_vars, distractors, board>>

IdentNext == identify

IdentSpec == IdentInit /\ [][IdentNext]_vars

\* ---------------------------------------------- the distractor generators

\* Correct answers the distractors are built for: a negative one (the
\* determinant -14), zero (a - b with a = b) and positive ones, 70 = C(8, 4)
\* being large enough for abs(answer) // 2 to exceed 20.
WebCorrects == {-14, 0, 6}
ChatCorrects == {-14, 0, 70}

\* _build_choices(correct, count=4)
count == 4

\* generate_options: attempts < 100
MaxAttempts == 100

abs(x) == IF x < 0 THEN -x ELSE x

max(x, y) == IF x >= y THEN x ELSE y

\* The last offset random.randint(1, abs(correct)) can return.
unfloored(correct) == abs(correct)

\* The last offset random.randint(1, max(10, abs(correct))) can return.
last_offset(correct) == max(10, abs(correct))

\* generate_options: spread (190-194)
spread(answer, level) ==
    IF level = "uni" THEN max(20, abs(answer) \div 2) ELSE 10

\* The offsets random.randint(-spread, spread) is observed to return: both
\* ends of the range, zero and its neighbours.
Offsets(answer, level) ==
    {-spread(answer, level), -1, 0, 1, spread(answer, level)}

\* The loop leaves at once, whatever it has collected.
always_full(options, n) == TRUE

\* not (len(options) < n)
full(options, n) == ~(Cardinality(options) < n)

\* list(options) followed by random.shuffle: the lists it can leave
shuffle(options) ==
    { result \in [1..Cardinality(options) -> options] :
        \A i, j \in DOMAIN result : i # j => result[i] # result[j] }

\* _build_choices: one iteration of the loop (270-272)
build_choices_add(offset, sign) ==
    /\ distractors.pc = "_build_choices"
    /\ ~full(distractors.options, count)
    /\ offset \in 1..last_offset(distractors.correct)
    /\ sign \in {-1, 1}
    /\ distractors' = [distractors EXCEPT
                          !.options = @ \cup {distractors.correct + sign * offset}]
    /\ UNCHANGED <<now, db, web_vars, chat_vars, auth, board>>

\* _build_choices: the loop is left, the list is shuffled and returned (273-275)
build_choices_return ==
    /\ distractors.pc = "_build_choices"
    /\ full(distractors.options, count)
    /\ \E result \in shuffle(distractors.options) :
          distractors' = [distractors EXCEPT !.pc = "done", !.result = result]
    /\ UNCHANGED <<now, db, web_vars, chat_vars, auth, board>>

\* generate_options: one iteration of the first loop (197-201)
generate_options_attempt(offset) ==
    /\ distractors.pc = "generate_options"
    /\ ~full(distractors.options, 4) /\ distractors.attempts < MaxAttempts
    /\ offset \in Offsets(distractors.correct, distractors.level)
    /\ distractors' = [distractors EXCEPT
                          !.options = IF offset # 0
                                      THEN @ \cup {distractors.correct + offset}
                                      ELSE @,
                          !.attempts = @ + 1]
    /\ UNCHANGED <<now, db, web_vars, chat_vars, auth, board>>

\* generate_options: one iteration of the fallback loop (204-207)
generate_options_fallback ==
    /\ distractors.pc = "generate_options"
    /\ ~(~full(distractors.options, 4) /\ distractors.attempts < MaxAttempts)
    /\ ~full(distractors.options, 4)
    /\ distractors' = [distractors EXCEPT
                          !.options = @ \cup {distractors.correct
                                              + spread(distractors.correct, distractors.level)
                                              + distractors.fallback},
                          !.fallback = @ + 1]
    /\ UNCHANGED <<now, db, web_vars, chat_vars, auth, board>>

\* generate_options: both loops are left, the list is shuffled and returned
\* (209-211)
generate_options_return ==
    /\ distractors.pc = "generate_options"
    /\ ~(~full(distractors.options, 4) /\ distractors.attempts < MaxAttempts)
    /\ full(distractors.options, 4)
    /\ \E result \in shuffle(distractors.options) :
          distractors' = [distractors EXCEPT !.pc = "done", !.result = result]
    /\ UNCHANGED <<now, db, web_vars, chat_vars, auth, board>>

\* A call of either generator: choices = {correct} (269), options = {answer},
\* attempts = 0 and fallback = 1 (188, 196, 204).
GenInit ==
    /\ Start
    /\ auth = NoAuth
    /\ board = NoBoard
    /\ \/ \E correct \in WebCorrects :
             distractors = [NoDistractors EXCEPT !.pc = "_build_choices",
                                                 !.correct = correct,
                                                 !.options = {correct}]
       \/ \E answer \in ChatCorrects, level \in ChatLevels :
             distractors = [NoDistractors EXCEPT !.pc = "generate_options",
                                                 !.correct = answer,
                                                 !.level = level,
                                                 !.options = {answer},
                                                 !.fallback = 1]

GenNext ==
    \/ \E offset \in 1..last_offset(distractors.correct), sign \in {-1, 1} :
            build_choices_add(offset, sign)
    \/ build_choices_return
    \/ \E offset \in Offsets(distractors.correct, distractors.level) :
            generate_options_attempt(offset)
    \/ generate_options_fallback
    \/ generate_options_return

GenSpec == GenInit /\ [][GenNext]_vars

\* The generator keeps running, and random does not return values already
\* collected for ever: a step that changes the locals is eventually taken
\* while one is possible.
GenLiveSpec == GenSpec /\ WF_vars(GenNext)

\* ---------------------------------------------------------- the leaderboard

\* The numbers of rows of the students tables drawn: none, one, as many as
\* the leaderboard lists, and one more.
Sizes == {0, 1, 10, 11}

\* A students table of n rows.  The scores of a column are all different
\* (i * k modulo the prime 13, in an order that depends on k), except that
\* row t, if there is one after the first, has the school_points of row 1.
Students(n, k, t) ==
    [i \in 1..n |->
        [present       |-> TRUE,
         school_points |-> IF i = t THEN k % 13 ELSE (i * k) % 13,
         uni_points    |-> (i * k * 5) % 13]]

\* The track groups a leaderboard is asked for.
TrackGroups == {"school", "uni"}

\* get_leaderboard(level_key, limit=10); math1.py: LIMIT 10
limit == 10

\* app.py get_leaderboard: the column of level_key (160-163)
leaderboard_column(level_key) ==
    IF level_key \in {"school", "school_easy", "school_medium"}
    THEN "school_points"
    ELSE "uni_points"

\* ORDER BY column DESC: the orders the rows can come in (rows with equal
\* values in any order), as sequences of user ids
RECURSIVE order_by_desc(_, _, _)
order_by_desc(d, remaining, column) ==
    IF remaining = {}
    THEN {<<>>}
    ELSE LET first == {u \in remaining :
                         \A v \in remaining : d[u][column] >= d[v][column]}
         IN UNION {{<<u>> \o rest : rest \in order_by_desc(d, remaining \ {u}, column)} :
                     u \in first}

\* No LIMIT clause: every row is returned.
no_limit(rows, n) == rows

\* LIMIT n
sql_limit(rows, n) == SubSeq(rows, 1, IF Len(rows) < n THEN Len(rows) ELSE n)

\* SELECT username, column FROM students ORDER BY column DESC LIMIT n: the
\* lists fetchall can return (the user id stands for the username)
select(d, column, n) ==
    { [i \in DOMAIN rows |-> [username |-> rows[i], score |-> d[rows[i]][column]]] :
        rows \in { sql_limit(r, n) :
                     r \in order_by_desc(d, {u \in DOMAIN d : d[u].present}, column) } }

\* GET /api/leaderboard?level=...: app.py get_leaderboard (159-172, 374-377)
app_get_leaderboard(level_key) ==
    /\ board.pc = "call"
    /\ board.level = level_key
    /\ \E rows \in select(db, leaderboard_column(level_key), limit) :
          board' = [board EXCEPT !.pc = "app", !.rows = rows]
    /\ UNCHANGED <<now, db, web_vars, chat_vars, auth, distractors>>

\* button, data rating_school or rating_uni: math1.py get_leaderboard
\* (112-117, 349-362)
math1_get_leaderboard(level) ==
    /\ board.pc = "call"
    /\ board.level = level
    /\ \E rows \in select(db, math1_LEVEL_COLUMNS[level], limit) :
          board' = [board EXCEPT !.pc = "math1", !.rows = rows]
    /\ UNCHANGED <<now, db, web_vars, chat_vars, auth, distractors>>

\* A students table, a player with or without a pending round, and the
\* track group a leaderboard is asked for.
BoardInit ==
    /\ now = 0
    /\ \E n \in Sizes, k \in 1..12 : \E t \in 0..n : db = Students(n, k, t)
    /\ \E pending \in BOOLEAN :
          /\ game_state =
                IF pending
                THEN [p \in Players |->
                        IF p \in Callers
                        THEN [id |-> 1, answer |-> 6, level |-> "school_easy",
                              time_start |-> 0, over |-> Absent]
                        ELSE None]
                ELSE [p \in Players |-> None]
          /\ nrounds = IF pending THEN 1 ELSE 0
    /\ reqs = {}
    /\ resp = NoResp
    /\ popped = [r \in 1..MaxRounds |-> 0]
    /\ credited = [r \in 1..MaxRounds |-> 0]
    /\ awarded = [p \in Players |-> [column \in {"school_points", "uni_points"} |-> 0]]
    /\ user_data = [p \in Players |-> NoUserData]
    /\ jobs = {}
    /\ handler = NoHandler
    /\ menu = FALSE
    /\ auth = NoAuth
    /\ distractors = NoDistractors
    /\ \E level \in TrackGroups : board = [NoBoard EXCEPT !.pc = "call", !.level = level]

BoardNext ==
    \/ \E level_key \in TrackGroups : app_get_leaderboard(level_key)
    \/ \E level \in TrackGroups : math1_get_leaderboard(level)

BoardSpec == BoardInit /\ [][BoardNext]_vars

\* ------------------------------------------------------------------ claims

\* The latest step answered player u's /api/answer with "No active question".
NoActiveRound(u) ==
    /\ resp.route = "answer" /\ resp.user = u
    /\ resp.status = 400 /\ resp.error = "No active question"

\* The latest step answered player u's /api/question with a question.
Issued(u) == resp.route = "question" /\ resp.user = u /\ resp.status = 200

\* The latest step sent a verdict (Correct, Incorrect or Timeout).
VerdictSent == resp.route = "answer" /\ resp.status = 200

\* The requests whose pop returned a round in this step.
Observers == {q \in reqs' \ reqs : q.pc = "judge"}

\* This step is the deadline check and comparison of request q.
Judged(q) == q \in reqs /\ q.pc = "judge" /\ q \notin reqs'

\* This step is the save_score and response of request q.
Saved(q) == q \in reqs /\ q.pc = "save" /\ q \notin reqs'

\* now - time_start of the round request q holds
Elapsed(q) == now - q.state.time_start

\* C1: of the check_answer calls racing for one pending round, exactly one
\* observes it: a call fails with "No active question" only when the player
\* has no round (so the first to pop observes it), and a call that observes
\* a round removes it in the same step and is the only one ever to observe
\* it (so every other call finds none and fails).
C1_ExactlyOneObserves ==
    [][ /\ \A r \in 1..MaxRounds : popped'[r] <= 1
        /\ \A u \in Players :
            /\ NoActiveRound(u)' => game_state[u] = None
            /\ \A q \in Observers : q.user = u =>
                /\ q.state = game_state[u]
                /\ q.state # None
                /\ popped[q.state.id] = 0
                /\ game_state'[u] = None ]_vars

\* A call is in flight with the player's round while another call of the
\* same player has just failed.
C1_Witness ==
    \E q \in reqs : NoActiveRound(q.user) /\ popped[q.state.id] = 1

\* C2: a round is credited (Correct verdict and save_score) at most once,
\* whatever calls follow.
C2_AtMostOneCredit ==
    \A r \in 1..MaxRounds : credited[r] <= 1 /\ credited[r] <= popped[r]

\* The only round issued was credited and a later call of its player failed.
C2_Witness ==
    /\ nrounds = 1 /\ credited[1] = 1
    /\ \E u \in Players : NoActiveRound(u)

\* C3: the store holds at most one round per player (it is a dict keyed by
\* player); a question issued to a player makes the newest round, started
\* now, the player's round whatever was pending; the store changes in no
\* other way than by an issue or a pop; and a call observes exactly the
\* round stored, which is newer than any round of the player still in flight.
C3_IssueReplaces ==
    [][ \A u \in Players :
          /\ Issued(u)' =>
                /\ nrounds' = nrounds + 1
                /\ game_state'[u].id = nrounds'
                /\ resp'.round = nrounds'
                /\ game_state'[u].time_start = now
                /\ game_state'[u].level \in LevelKeys
                /\ game_state'[u].answer \in Gen(game_state'[u].level)
                /\ resp'.points = LEVELS[game_state'[u].level].points
          /\ game_state'[u] # game_state[u] => (game_state'[u] = None \/ Issued(u)')
          /\ \A q \in Observers : q.user = u => q.state = game_state[u]
          /\ \A q \in reqs' : (q.user = u /\ game_state'[u] # None) =>
                q.state.id < game_state'[u].id ]_vars

\* A question has just replaced a pending round of the same player.
C3_Witness ==
    \E u \in Players : Issued(u) /\ game_state[u].over # Absent

\* C4 as stated: after two issues in succession, a call that submits the
\* first round's answer never observes a round (it fails with NoActiveRound).
C4_FirstAnswerFails ==
    [][ \A q \in Observers :
            ~(q.state.over # Absent /\ q.chosen = q.state.over) ]_vars

\* C4 amended: after two issues in succession the second round is the
\* player's round, no call fails while it is pending, and a call that submits
\* the first round's answer is judged against the second round: Timeout past
\* its deadline, else Correct if the two answers coincide, else Incorrect
\* with the second round's answer disclosed.
C4_JudgedAgainstSecond ==
    [][ /\ \A u \in Players :
            /\ (Issued(u)' /\ game_state[u] # None) =>
                    /\ game_state'[u].id = nrounds + 1
                    /\ game_state'[u].id > game_state[u].id
            /\ NoActiveRound(u)' => game_state[u] = None
        /\ \A q \in reqs :
            (Judged(q) /\ q.state.over # Absent /\ q.chosen = q.state.over) =>
                IF Elapsed(q) > LEVELS[q.state.level].timer + 1
                THEN VerdictSent' /\ resp'.timeout /\ ~resp'.correct
                ELSE IF q.state.over = q.state.answer
                THEN [q EXCEPT !.pc = "save",
                               !.new_score = get_score(db, q.user, q.state.level)
                                    + LEVELS[q.state.level].points] \in reqs'
                ELSE /\ VerdictSent' /\ ~resp'.timeout /\ ~resp'.correct
                     /\ resp'.round = q.state.id
                     /\ resp'.answer = q.state.answer ]_vars

\* A call that submitted the answer of the overwritten round has observed
\* the round that replaced it, whose answer differs.
C4_Witness ==
    \E q \in reqs :
        /\ q.state.over # Absent
        /\ q.chosen = q.state.over
        /\ q.state.answer # q.state.over

\* C5: a call that observes a round leaves the player without one; the
\* verdict, whichever it is, does not put the round back; and a player
\* without a round stays without one, and no call of theirs observes a
\* round, until the next question is issued.
C5_ResolveRemoves ==
    [][ \A u \in Players :
          /\ \A q \in Observers : q.user = u => game_state'[u] = None
          /\ (VerdictSent' /\ resp'.user = u) =>
                /\ game_state'[u] = game_state[u]
                /\ game_state'[u].id # resp'.round
                /\ \A q \in reqs' : q.state.id # resp'.round
          /\ (game_state[u] = None /\ ~Issued(u)') =>
                /\ game_state'[u] = None
                /\ \A q \in Observers : q.user # u ]_vars

\* The only round issued was observed and resolved, and a second call of the
\* player has just failed.
C5_Witness ==
    /\ nrounds = 1 /\ popped[1] = 1 /\ reqs = {}
    /\ \E u \in Players : NoActiveRound(u) /\ game_state[u] = None

\* C6: a call whose elapsed time exceeds the timer of the round's level plus
\* one second answers correct = false, timeout = true with the round's
\* answer and the score read, whatever answer was submitted, and changes no
\* stored score.
C6_TimeoutVerdict ==
    [][ \A q \in reqs :
          (Judged(q) /\ Elapsed(q) > LEVELS[q.state.level].timer + 1) =>
                /\ VerdictSent'
                /\ resp'.round = q.state.id
                /\ resp'.correct = FALSE
                /\ resp'.timeout = TRUE
                /\ resp'.answer = q.state.answer
                /\ resp'.score = get_score(db, q.user, q.state.level)
                /\ db' = db
                /\ credited' = credited
                /\ reqs' = reqs \ {q} ]_vars

\* A Timeout verdict for a call that submitted the round's answer.
C6_Witness ==
    VerdictSent /\ resp.timeout /\ ~resp.correct /\ resp.chosen = resp.answer

\* C7 as stated: a call within the deadline that submits the round's answer
\* goes on to save the score, answers correct = true with the points of the
\* round's level, and the stored score becomes the score stored before the
\* save plus those points, which is the score reported.
C7_CorrectAddsPoints ==
    [][ \A q \in reqs :
          LET column == LEVEL_COLUMNS[q.state.level]
              pts    == LEVELS[q.state.level].points
          IN
          /\ (Judged(q) /\ Elapsed(q) <= LEVELS[q.state.level].timer + 1
                        /\ q.chosen = q.state.answer) =>
                \E s \in reqs' : s.pc = "save" /\ s.state = q.state
          /\ Saved(q) =>
                /\ VerdictSent' /\ resp'.correct /\ ~resp'.timeout
                /\ resp'.points = pts
                /\ db'[q.user][column] = db[q.user][column] + pts
                /\ resp'.score = db'[q.user][column] ]_vars

\* C8: a call within the deadline whose answer differs from the round's
\* answer answers correct = false, timeout = false with the round's answer,
\* and changes no stored score.
C8_IncorrectVerdict ==
    [][ \A q \in reqs :
          (Judged(q) /\ Elapsed(q) <= LEVELS[q.state.level].timer + 1
                     /\ q.chosen # q.state.answer) =>
                /\ VerdictSent'
                /\ resp'.round = q.state.id
                /\ resp'.correct = FALSE
                /\ resp'.timeout = FALSE
                /\ resp'.answer = q.state.answer
                /\ db' = db
                /\ credited' = credited
                /\ reqs' = reqs \ {q} ]_vars

\* An Incorrect verdict for a call that submitted another integer.
C8_Witness ==
    /\ VerdictSent /\ ~resp.timeout /\ ~resp.correct
    /\ resp.chosen \in Answers /\ resp.chosen # resp.answer

\* The step is a correct answer of the chat variant by player u: button
\* calls update_high_score(u, the new session score, the game's level).
ChatSaved(u) == user_data'[u].score = user_data[u].score + 1

\* C9 as stated: no stored score of any player ever decreases, and a save
\* of candidate c for a player leaves the stored value of that level's
\* column at c if the player had no row or c is greater than the stored
\* value, and unchanged otherwise; both for save_score of the web variant
\* and for update_high_score of the chat variant.
C9_SaveIfGreater ==
    [][ \A u \in Players :
          /\ \A column \in {"school_points", "uni_points"} :
                db'[u][column] >= db[u][column]
          /\ \A q \in reqs :
                (Saved(q) /\ q.user = u) =>
                    LET column == LEVEL_COLUMNS[q.state.level] IN
                    /\ db'[u].present
                    /\ db'[u][column] =
                          IF ~db[u].present \/ q.new_score > db[u][column]
                          THEN q.new_score ELSE db[u][column]
          /\ ChatSaved(u) =>
                LET column == math1_LEVEL_COLUMNS[user_data[u].level]
                    c      == user_data'[u].score
                IN
                /\ db'[u].present
                /\ db'[u][column] =
                      IF ~db[u].present \/ c > db[u][column]
                      THEN c ELSE db[u][column] ]_vars

\* C10: a call of a player who has no round fails with "No active question"
\* (it observes nothing), and a call that fails changes neither the store
\* nor the students table.
C10_NoRoundFails ==
    [][ \A u \in Players :
          /\ \A q \in Observers : q.user = u => game_state[u] # None
          /\ NoActiveRound(u)' =>
                /\ game_state[u] = None
                /\ UNCHANGED <<now, game_state, db, reqs, nrounds, popped, credited>> ]_vars

\* A call has failed before any question was issued.
C10_Witness ==
    nrounds = 0 /\ \E u \in Players : NoActiveRound(u)

\* The latest step answered player u's /api/question with "Invalid level".
InvalidTrack(u) ==
    /\ resp.route = "question" /\ resp.user = u
    /\ resp.status = 400 /\ resp.error = "Invalid level"

\* The stored scores: what get_score reads for every player and column
\* (0 where the player has no row).
Scores(d) ==
    [p \in Players |-> [column \in {"school_points", "uni_points"} |-> d[p][column]]]

\* C11: a question is issued only for a level that is a key of LEVELS; a
\* request with any other level is answered "Invalid level" and leaves the
\* store as it was (a pending round of the player keeps its answer, level
\* and time_start), starts no request and changes no stored score.
C11_InvalidTrack ==
    [][ \A u \in Players :
          /\ Issued(u)' => game_state'[u].level \in LevelKeys
          /\ InvalidTrack(u)' =>
                /\ game_state' = game_state
                /\ Scores(db') = Scores(db)
                /\ UNCHANGED <<now, reqs, nrounds, popped, credited>> ]_vars

\* A request with an unknown level has just been refused while the player
\* has a pending round and a stored score.
C11_Witness ==
    \E u \in Players :
        /\ InvalidTrack(u)
        /\ game_state[u] # None
        /\ db[u].school_points > 0

\* The latest step refused a request as unauthorized.
Unauthenticated == resp.status = 401 /\ resp.error = "Unauthorized"

\* C12: init data that is empty, has no hash field or a blank one, carries a
\* hash that is not the one computed (a player's init data with the user
\* replaced), has no user field or a user that is no JSON, verifies as no
\* user; a request that verifies as no user is answered 401 on both routes;
\* and a step that answers 401 changes neither game_state nor the students
\* table, and starts no request.
C12_Unauthenticated ==
    [][ /\ \A d \in {<<>>, NoHash, BlankHash, Forged, NoUser, BadUser} :
            /\ [header |-> d, body |-> <<>>, args |-> <<>>] \in Requests
            /\ get_telegram_user([header |-> d, body |-> <<>>, args |-> <<>>])
                    = Unverified
        /\ \A q \in Requests :
            RequestUser[q] = Unverified =>
                /\ ENABLED get_question_unauthorized(q)
                /\ ENABLED check_answer_unauthorized(q)
        /\ \A u \in Players :
            (Issued(u)' \/ InvalidTrack(u)' \/ NoActiveRound(u)'
                \/ (\E q \in Observers : q.user = u)) => u \in Verified
        /\ Unauthenticated' =>
            /\ resp'.route \in {"question", "answer"}
            /\ UNCHANGED <<now, game_state, db, reqs, nrounds, popped, credited>> ]_vars

\* A request has just been refused as unauthorized on the answer route
\* while a player has a pending round and a stored score.
C12_Witness ==
    /\ Unauthenticated /\ resp.route = "answer"
    /\ \E u \in Players : game_state[u] # None /\ db[u].school_points > 0

\* C13 as stated: when init data that verifies has the value of one field
\* other than the hash replaced by another value, the hash kept as it was,
\* the altered init data does not verify.
C13_TamperSensitive ==
    (/\ auth.pc = "validated"
     /\ auth.init_data # auth.signed
     /\ validate_init_data(auth.signed) # Unverified)
        => auth.user = Unverified

\* Job j of the queue runs in this step.  While send_question awaits, the
\* only steps that leave the handler as it is are those of the job queue;
\* when no game of the player is active, no press removes a job.
StaleTimeoutRan(j) ==
    /\ j \in jobs /\ j \notin jobs'
    /\ handler' = handler
    /\ \/ handler.pc = "send" /\ handler.user = j.user
       \/ ~user_data[j.user].game_active

\* C14 as stated: a timeout job that runs after its question was resolved
\* (no game of the player is active) or superseded (send_question has set
\* the next question of the player and awaits the send, so every job of the
\* player in the queue was scheduled for an earlier question) changes
\* nothing of the player's game.
C14_StaleTimeoutNoOp ==
    [][ \A j \in jobs :
            StaleTimeoutRan(j) => user_data'[j.user] = user_data[j.user] ]_vars

\* C15 as stated: an answer processed after the deadline of its question
\* is never scored as correct.  Web variant: a call judged when the elapsed
\* time exceeds the timer plus one second does not go on to save_score.
\* Chat variant: the deadline of the question on display is the due time of
\* its timeout job; a press that is scored (the session score grows) is
\* not made after the due time of a job of the player still in the queue.
C15_LateNeverCorrect ==
    [][ /\ \A q \in reqs :
            (Judged(q) /\ Elapsed(q) > LEVELS[q.state.level].timer + 1) =>
                /\ \A s \in reqs' : s.pc = "save" => s \in reqs
                /\ db' = db
        /\ \A u \in Players :
            ChatSaved(u) => \A j \in get_jobs_by_name(u) : now <= j.due ]_vars

\* C16: under the fair scheduling of time, sends and the job queue, a
\* player's game does not stay active for ever unless the player keeps
\* pressing buttons: once the question on display is left unanswered, its
\* timeout job runs and sets game_active to false.
C16_TimeoutEndsGame ==
    \A u \in Players :
        \/ []<><<Press(u)>>_vars
        \/ []<>(~user_data[u].game_active)

\* A timeout job is in the queue for the question of an active game.
C16_Witness ==
    \E j \in jobs :
        /\ user_data[j.user].game_active
        /\ user_data[j.user].question_count = j.q_num
        /\ handler.pc = "idle"

\* Four pairwise distinct integers, one of which is the correct answer.
FourDistinct(result, correct) ==
    /\ Len(result) = 4
    /\ \A i, j \in DOMAIN result : i # j => result[i] # result[j]
    /\ \E i \in DOMAIN result : result[i] = correct

\* C17: the list either generator returns has exactly 4 pairwise distinct
\* integers, one of which is the correct answer, whatever that answer is
\* (zero and negative answers included).
C17_FourDistinct ==
    distractors.pc = "done" => FourDistinct(distractors.result, distractors.correct)

\* _build_choices has returned the choices of the correct answer 0.
C17_Witness ==
    /\ distractors.pc = "done"
    /\ distractors.level = ""
    /\ distractors.correct = 0
    /\ Len(distractors.result) = count

\* C18: every call of either generator returns.
C18_Terminates == <>(distractors.pc = "done")

\* generate_options has returned the options of the answer 0 after 100
\* attempts that collected nothing and three rounds of the fallback loop.
C18_Witness ==
    /\ distractors.pc = "done"
    /\ distractors.level # ""
    /\ distractors.correct = 0
    /\ distractors.attempts = MaxAttempts
    /\ distractors.fallback = 4

\* This step is part of a request made as player u: a get_question that
\* issues a round or is refused for its level, or a check_answer at its pop
\* (which may find no round), its verdict or its save.
OperationOf(u) ==
    \/ \E l \in SharedLevels : get_question_invalid(u, l)
    \/ \E l \in SharedLevels, a \in SharedAnswers : get_question(u, l, a)
    \/ \E c \in Chosen : check_answer_pop(u, c)
    \/ \E r \in reqs : r.user = u /\ (check_answer_judge(r) \/ check_answer_save(r))

\* C19: a step of a request made as one player leaves the pending round and
\* the row of every other player as they were, and a request refused as
\* unauthorized leaves those of every player as they were.
C19_Frame ==
    [][ /\ \A u \in Players :
            OperationOf(u) =>
                \A v \in Players \ {u} :
                    game_state'[v] = game_state[v] /\ db'[v] = db[v]
        /\ Unauthenticated' => (game_state' = game_state /\ db' = db) ]_vars

\* A correct answer of one player has just been saved while another player
\* has a pending round and a row.
C19_Witness ==
    \E u \in Players, v \in Players :
        /\ u # v
        /\ resp.route = "answer" /\ resp.user = u /\ resp.correct
        /\ game_state[v] # None
        /\ db[v].present

\* C20: the list either get_leaderboard returns for a track group has at
\* most 10 entries; each entry is a row of the table with its stored score
\* of that track group, no row is listed twice, the scores do not increase
\* down the list and no row left out has a higher score than a listed one;
\* and the call changes no row of the table and no pending round.
C20_Leaderboard ==
    [][ (board.pc = "call" /\ board'.pc # "call") =>
          LET rows == board'.rows
              column == math1_LEVEL_COLUMNS[board.level]
              listed == {rows[i].username : i \in DOMAIN rows}
          IN
          /\ Len(rows) <= 10
          /\ \A i \in DOMAIN rows :
                /\ rows[i].username \in DOMAIN db /\ db[rows[i].username].present
                /\ rows[i].score = db[rows[i].username][column]
          /\ \A i, j \in DOMAIN rows :
                /\ i < j => rows[i].score >= rows[j].score
                /\ i # j => rows[i].username # rows[j].username
          /\ \A u \in DOMAIN db \ listed :
                /\ Len(rows) = 10
                /\ \A i \in DOMAIN rows : rows[i].score >= db[u][column]
          /\ db' = db
          /\ UNCHANGED <<game_state, reqs, nrounds, popped, credited, user_data>> ]_vars

\* A leaderboard of 10 entries has been returned from a table of more rows
\* in which two rows have the same score, while a player has a pending round.
C20_Witness ==
    /\ board.pc \in {"app", "math1"}
    /\ Len(board.rows) = 10
    /\ Cardinality(DOMAIN db) > 10
    /\ \E u, v \in DOMAIN db :
          u # v /\ db[u][math1_LEVEL_COLUMNS[board.level]]
                        = db[v][math1_LEVEL_COLUMNS[board.level]]
    /\ \E p \in Players : game_state[p] # None

\* C21: the user of a request is the one its header verifies as when the
\* header is not empty, else the one the initData of its body verifies as
\* when that is not empty, else the one the initData of its query string
\* verifies as, and no user when all three are empty; so a request whose
\* first non-empty source does not verify has no user, whatever the sources
\* after it hold.
C21_Precedence ==
    auth.pc = "identified" =>
        LET request == auth.request
            sources == <<request.header, request.body, request.args>>
        IN
        /\ \A i \in 1..3 :
              (sources[i] # <<>> /\ \A j \in 1..(i - 1) : sources[j] = <<>>)
                  => auth.user = validate_init_data(sources[i])
        /\ (\A i \in 1..3 : sources[i] = <<>>) => auth.user = Unverified

\* A request with a forged header and a player's init data in its body has
\* been refused.
C21_Witness ==
    /\ auth.pc = "identified"
    /\ auth.request.header = Forged
    /\ validate_init_data(auth.request.body) # Unverified
    /\ auth.user = Unverified

\* C22 as stated: once no call of check_answer is in flight, the stored score
\* of every player in every column is the sum of the points of the Correct
\* verdicts returned to the player for the levels of that column.
C22_NoLostUpdate ==
    reqs = {} =>
        \A u \in Players, column \in {"school_points", "uni_points"} :
            Scores(db)[u][column] = awarded[u][column]

\* C23 as stated: after a correct answer of the chat variant the stored
\* high score of the game's level is at least the session score, and a
\* press that starts a game leaves the session score at 0 and the question
\* counter at 1 and lowers no stored score.
C23_HighScoreCoversSession ==
    [][ \A u \in Players :
          /\ ChatSaved(u) =>
                get_points(db', u, user_data'[u].level) >= user_data'[u].score
          /\ (\E l \in ChatLevels, a \in Answers : button_start(u, l, a)) =>
                /\ user_data'[u].score = 0
                /\ user_data'[u].question_count = 1
                /\ \A column \in {"school_points", "uni_points"} :
                      db'[u][column] >= db[u][column] ]_vars

\* The timeout jobs of player u in queue q.
TimeoutJobs(q, u) == {j \in q : j.user = u}

\* C24: the job queue never holds more than one timeout job of a player;
\* when the send of a question completes, the player's only job is the one
\* scheduled for that question; and a press on an answer option during a
\* game leaves no job of the player in the queue.
C24_OneTimeoutJob ==
    [][ \A u \in Players :
          /\ Cardinality(TimeoutJobs(jobs, u)) <= 1
          /\ Cardinality(TimeoutJobs(jobs', u)) <= 1
          /\ (send_question_end /\ handler.user = u) =>
                TimeoutJobs(jobs', u) =
                    {[user |-> u, q_num |-> handler.q_num,
                      due |-> now + timeout_duration(handler.level)]}
          /\ (/\ user_data[u].game_active
              /\ \E c \in Answers, a \in Answers : button_answer(u, c, a)) =>
                TimeoutJobs(jobs', u) = {} ]_vars

\* The job of a player's second question is in the queue: the job of the
\* first was removed when the player answered, and the send of the second
\* found none to remove.
C24_Witness ==
    \E u \in Players :
        /\ handler.pc = "idle"
        /\ user_data[u].game_active
        /\ TimeoutJobs(jobs, u) # {}
        /\ \A j \in TimeoutJobs(jobs, u) : j.q_num = 2

====
